---- MODULE Spec2Model ----
(***************************************************************************)
(* Discount engine of the coupon management API (DiscountCalculator).     *)
(*                                                                         *)
(* Numbers.  Every monetary JavaScript number is held as an integer count  *)
(* of ten-thousandths of a currency unit ("ticks"): 0.01 is 100 ticks.     *)
(* Minimums, caps and fixed amounts are drawn at cent granularity; prices   *)
(* are multiples of half a cent (the engine accepts any non-negative       *)
(* number as a price).  With percentages that are multiples of 10 every    *)
(* percentage of a line total is exact in ticks, so the only rounding in   *)
(* the model is the one _roundPrice performs.  Percentages are plain       *)
(* integers.  Binary floating-point drift is not modelled.                 *)
(*                                                                         *)
(* An optional number (a field or argument that may be undefined) is the   *)
(* empty sequence when undefined and <<v>> when it is the number v.        *)
(***************************************************************************)
EXTENDS Integers, Sequences, FiniteSets, TLC

VARIABLES cart, cartType, call, result

\* The service and its database: the coupons collection (document id to
\* document), the last document id handed out, the couponusages collection,
\* the service calls in flight, and the clock.
VARIABLES coupons, lastId, usages, requests, now

engineVars == <<cart, cartType, call, result>>

serviceVars == <<coupons, lastId, usages, requests, now>>

vars == <<cart, cartType, call, result, coupons, lastId, usages, requests, now>>

-----------------------------------------------------------------------------
(* Bounds and input domains *)

MaxLines == 2

Products == {"A", "B", "C"}

Prices == {0, 50, 500}

Quantities == {1, 2}

Undefined == <<>>

Minimums == {Undefined, <<0>>, <<200>>, <<600>>}

Maximums == {Undefined, <<0>>, <<100>>, <<300>>}

Percentages == {0, 10, 50}

FixedAmounts == {0, 100, 1000}

DiscountConfigs ==
    {[type |-> "PERCENTAGE", value |-> p] : p \in Percentages}
    \cup {[type |-> "FIXED_AMOUNT", value |-> a] : a \in FixedAmounts}
    \cup {[type |-> "BOGUS", value |-> 10]}

CouponConditions ==
    [minimum_cart_value : Minimums, maximum_discount : Maximums]

BuyQuantities == {1, 2}

GetQuantities == {1, 2}

RepetitionLimits == {Undefined, <<1>>, <<2>>}

CartLines == [product_id : Products, price : Prices, quantity : Quantities]

Carts == UNION {[1..n -> CartLines] : n \in 0..MaxLines}

\* What the caller passes as cartItems: an array, null, or a value that is
\* not an array (an object, a string).
CartTypes == {"array", "null", "object"}

-----------------------------------------------------------------------------
(* JavaScript helpers *)

\* Truthiness of an optional number: undefined and 0 are falsy.
Truthy(x) == x # Undefined /\ x[1] # 0

\* x || fallback
OrElse(x, fallback) == IF Truthy(x) THEN x[1] ELSE fallback

Min2(a, b) == IF a < b THEN a ELSE b

\* Ticks per 0.01: _roundPrice scales by 100, rounds, and divides by 100.
Cent == 100

\* Mutant of _roundPrice: half is added before Math.round adds its own half,
\* as in Math.round(price * 100 + 0.5) / 100.
_roundPriceHalfTwice(price) == ((price + Cent) \div Cent) * Cent

\* Math.round(price * 100) / 100, halves rounded towards +infinity.
_roundPrice(price) == ((price + (Cent \div 2)) \div Cent) * Cent

RECURSIVE SumLines(_, _)
\* cartItems.reduce((sum, item) => sum + (item.price || 0) * (item.quantity || 0), 0)
SumLines(cartItems, n) ==
    IF n = 0 THEN 0
    ELSE SumLines(cartItems, n - 1) + cartItems[n].price * cartItems[n].quantity

\* The result of the catch block that surrounds every evaluator.
CalculationError(message) ==
    [applicable |-> FALSE,
     reason |-> "Calculation error: " \o message,
     discountAmount |-> 0]

CartIsEmpty ==
    [applicable |-> FALSE, reason |-> "Cart is empty", discountAmount |-> 0]

\* Mutant of IsEmptyCart: only the length is tested.
IsEmptyCartLengthOnly(type, cartItems) == type = "array" /\ Len(cartItems) = 0

\* STEP 1 of every evaluator:
\* !cartItems || !Array.isArray(cartItems) || cartItems.length === 0
IsEmptyCart(type, cartItems) == type # "array" \/ Len(cartItems) = 0

\* An evaluator entered with a cartItems value of the given type: STEP 1
\* returns first; past it, reduce/forEach on a value that is not an array
\* throws a TypeError, which the catch block turns into a result.
EvaluateOn(type, cartItems, evaluated) ==
    IF IsEmptyCart(type, cartItems) THEN CartIsEmpty
    ELSE IF type # "array" THEN CalculationError("cartItems is not an array")
    ELSE evaluated

-----------------------------------------------------------------------------
(* Cart-wise discount *)

\* Mutant of BelowMinimum: a cart exactly at the minimum is rejected.
BelowMinimumInclusive(cartTotal, couponConditions) ==
    cartTotal <= OrElse(couponConditions.minimum_cart_value, 0)

\* STEP 3: the minimum cart value gate (true when the cart is rejected).
BelowMinimum(cartTotal, couponConditions) ==
    cartTotal < OrElse(couponConditions.minimum_cart_value, 0)

\* Mutant of RawCartDiscount: a fixed amount yields the amount left to pay
\* instead of the amount taken off.
RawCartDiscountAsFinalAmount(cartTotal, discountConfig) ==
    IF discountConfig.type = "PERCENTAGE"
    THEN (cartTotal * discountConfig.value) \div 100
    ELSE cartTotal - discountConfig.value

\* STEP 4: raw discount for a known discount type.
RawCartDiscount(cartTotal, discountConfig) ==
    IF discountConfig.type = "PERCENTAGE"
    THEN (cartTotal * discountConfig.value) \div 100
    ELSE discountConfig.value

\* STEP 5: the condition under which the cap replaces the raw discount.
CapApplies(maximumDiscount, discountAmount) ==
    Truthy(maximumDiscount) /\ discountAmount > maximumDiscount[1]

calculateCartWiseDiscount(cartItems, couponConditions, discountConfig) ==
    IF Len(cartItems) = 0 THEN CartIsEmpty
    ELSE
    LET cartTotal == SumLines(cartItems, Len(cartItems))
        minimumValue == OrElse(couponConditions.minimum_cart_value, 0)
    IN  IF BelowMinimum(cartTotal, couponConditions)
        THEN [applicable |-> FALSE,
              reason |-> "Cart total is below minimum",
              discountAmount |-> 0,
              breakdownInfo |->
                  [cartTotal |-> _roundPrice(cartTotal),
                   minimumRequired |-> minimumValue,
                   shortfall |-> _roundPrice(minimumValue - cartTotal)]]
        ELSE IF discountConfig.type \notin {"PERCENTAGE", "FIXED_AMOUNT"}
        THEN CalculationError("Unknown discount type")
        ELSE
        LET discountAmount == RawCartDiscount(cartTotal, discountConfig)
            maximumDiscount == couponConditions.maximum_discount
        IN  IF CapApplies(maximumDiscount, discountAmount)
            THEN [applicable |-> TRUE,
                  discountAmount |-> _roundPrice(maximumDiscount[1]),
                  reason |-> "Discount capped at maximum",
                  breakdownInfo |->
                      [cartTotal |-> _roundPrice(cartTotal),
                       discountType |-> discountConfig.type,
                       discountValue |-> discountConfig.value,
                       calculatedDiscount |-> _roundPrice(discountAmount),
                       maximumCap |-> maximumDiscount[1],
                       finalDiscount |-> _roundPrice(maximumDiscount[1])]]
            ELSE [applicable |-> TRUE,
                  discountAmount |-> _roundPrice(discountAmount),
                  breakdownInfo |->
                      [cartTotal |-> _roundPrice(cartTotal),
                       discountType |-> discountConfig.type,
                       discountValue |-> discountConfig.value,
                       finalDiscount |-> _roundPrice(discountAmount),
                       finalAmount |->
                           _roundPrice(cartTotal - _roundPrice(discountAmount))]]

-----------------------------------------------------------------------------
(* Product-wise discount *)

\* Mutant of ItemDiscount: a fixed amount is given once per line, not per unit.
ItemDiscountOncePerLine(item, discountConfig) ==
    IF discountConfig.type = "PERCENTAGE"
    THEN (item.price * item.quantity * discountConfig.value) \div 100
    ELSE IF discountConfig.type = "FIXED_AMOUNT"
    THEN discountConfig.value
    ELSE 0

\* STEP 2, loop body: the discount of one eligible line.
ItemDiscount(item, discountConfig) ==
    IF discountConfig.type = "PERCENTAGE"
    THEN (item.price * item.quantity * discountConfig.value) \div 100
    ELSE IF discountConfig.type = "FIXED_AMOUNT"
    THEN discountConfig.value * item.quantity
    ELSE 0

\* Mutant of IsApplicableProduct: the allow-list is ignored.
IsApplicableProductAlways(item, applicableProducts) == TRUE

\* STEP 2, the membership test applicableProducts.includes(item.product_id).
IsApplicableProduct(item, applicableProducts) ==
    item.product_id \in applicableProducts

RECURSIVE ProductLoop(_, _, _, _)
\* cartItems.forEach over the first n lines: the running totalDiscount and the
\* discountedItems pushed so far.
ProductLoop(cartItems, applicableProducts, discountConfig, n) ==
    IF n = 0 THEN [totalDiscount |-> 0, discountedItems |-> <<>>]
    ELSE
    LET acc == ProductLoop(cartItems, applicableProducts, discountConfig, n - 1)
        item == cartItems[n]
    IN  IF IsApplicableProduct(item, applicableProducts)
        THEN [totalDiscount |->
                  acc.totalDiscount + ItemDiscount(item, discountConfig),
              discountedItems |->
                  Append(acc.discountedItems,
                         [product_id |-> item.product_id,
                          quantity |-> item.quantity,
                          price |-> item.price,
                          itemTotal |-> item.price * item.quantity,
                          discount |->
                              _roundPrice(ItemDiscount(item, discountConfig))])]
        ELSE acc

\* cartItems.map(item => item.product_id)
CartProducts(cartItems) == [i \in 1..Len(cartItems) |-> cartItems[i].product_id]

\* applicableProducts is an array in the source; only its emptiness and
\* membership are read, so it is held as a set.
calculateProductWiseDiscount(cartItems, applicableProducts, discountConfig) ==
    IF Len(cartItems) = 0 THEN CartIsEmpty
    ELSE IF applicableProducts = {}
    THEN [applicable |-> FALSE,
          reason |-> "No applicable products defined for this coupon",
          discountAmount |-> 0]
    ELSE
    LET loop == ProductLoop(cartItems, applicableProducts, discountConfig,
                            Len(cartItems))
    IN  IF loop.totalDiscount = 0
        THEN [applicable |-> FALSE,
              reason |-> "No applicable products found in your cart",
              discountAmount |-> 0,
              breakdownInfo |->
                  [applicableProducts |-> applicableProducts,
                   cartProducts |-> CartProducts(cartItems)]]
        ELSE [applicable |-> TRUE,
              discountAmount |-> _roundPrice(loop.totalDiscount),
              breakdownInfo |->
                  [discountType |-> discountConfig.type,
                   discountValue |-> discountConfig.value,
                   discountedItems |-> loop.discountedItems,
                   totalDiscount |-> _roundPrice(loop.totalDiscount)]]

-----------------------------------------------------------------------------
(* BxGy discount *)

RECURSIVE FilterLines(_, _, _)
\* cartItems.filter(item => ids.includes(item.product_id)), in cart order.
FilterLines(cartItems, ids, n) ==
    IF n = 0 THEN <<>>
    ELSE IF cartItems[n].product_id \in ids
    THEN Append(FilterLines(cartItems, ids, n - 1), cartItems[n])
    ELSE FilterLines(cartItems, ids, n - 1)

RECURSIVE SumQuantity(_, _)
SumQuantity(items, n) ==
    IF n = 0 THEN 0 ELSE SumQuantity(items, n - 1) + items[n].quantity

\* STEP 2: buyItems and buyCount.
BuyItems(cartItems, buyArray) == FilterLines(cartItems, buyArray, Len(cartItems))

\* Mutant of BuyCount: buy-eligible lines are counted, not their quantities.
BuyCountLines(cartItems, buyArray) == Len(BuyItems(cartItems, buyArray))

BuyCount(cartItems, buyArray) ==
    SumQuantity(BuyItems(cartItems, buyArray), Len(BuyItems(cartItems, buyArray)))

\* Mutant of TimesToApply: the repetition limit is ignored.
TimesToApplyUnlimited(timesApplicable, repetitionLimit) == timesApplicable

\* STEP 4: Math.min(timesApplicable, repetitionLimit || timesApplicable)
TimesToApply(timesApplicable, repetitionLimit) ==
    Min2(timesApplicable, OrElse(repetitionLimit, timesApplicable))

\* Mutant of PriceBefore: the comparator is a.price - b.price (lowest first).
PriceBeforeAscending(b, a) == b.price < a.price

\* STEP 6 comparator: true when b must come before a.
PriceBefore(b, a) == b.price > a.price

\* Insert x into a list already sorted, after every element it does not precede.
RECURSIVE InsertByPrice(_, _)
InsertByPrice(sorted, x) ==
    IF sorted = <<>> THEN <<x>>
    ELSE IF PriceBefore(x, Head(sorted))
    THEN <<x>> \o sorted
    ELSE <<Head(sorted)>> \o InsertByPrice(Tail(sorted), x)

RECURSIVE SortByPriceDesc(_, _)
\* getItems.sort((a, b) => b.price - a.price): a stable sort, highest price first.
SortByPriceDesc(items, n) ==
    IF n = 0 THEN <<>>
    ELSE InsertByPrice(SortByPriceDesc(items, n - 1), items[n])

\* The arrays alive when STEP 6 has run: cartItems is the caller's array,
\* getItems the new array filter() returned (STEP 5); sort() reorders the
\* array it is called on and no other.
ArraysAfterSortOfCart(cartItems, getArray) ==
    LET arrays == [cartItems |-> cartItems,
                   getItems |-> FilterLines(cartItems, getArray, Len(cartItems))]
    IN  [arrays EXCEPT !.cartItems = SortByPriceDesc(@, Len(@))]

ArraysAfterSort(cartItems, getArray) ==
    LET arrays == [cartItems |-> cartItems,
                   getItems |-> FilterLines(cartItems, getArray, Len(cartItems))]
    IN  [arrays EXCEPT !.getItems = SortByPriceDesc(@, Len(@))]

\* Mutant of FreeQuantity: the line's own quantity does not limit it.
FreeQuantityUnlimited(item, remaining) == remaining

\* STEP 7: Math.min(item.quantity, freeItemsNeeded - freeItemsGiven)
FreeQuantity(item, remaining) == Min2(item.quantity, remaining)

\* Mutant of FreeDiscount: the whole line is discounted.
FreeDiscountWholeLine(item, freeQuantity) == item.quantity * item.price

\* STEP 7: const discount = freeQuantity * item.price
FreeDiscount(item, freeQuantity) == freeQuantity * item.price

RECURSIVE FreeLoop(_, _, _)
\* STEP 7: getItems.forEach over the first n sorted candidates.
FreeLoop(getItems, freeItemsNeeded, n) ==
    IF n = 0
    THEN [totalDiscount |-> 0, freeItemsGiven |-> 0, freeItemsGivenDetails |-> <<>>]
    ELSE
    LET acc == FreeLoop(getItems, freeItemsNeeded, n - 1)
        item == getItems[n]
        freeQuantity == FreeQuantity(item, freeItemsNeeded - acc.freeItemsGiven)
        discount == FreeDiscount(item, freeQuantity)
    IN  IF acc.freeItemsGiven >= freeItemsNeeded THEN acc
        ELSE [totalDiscount |-> acc.totalDiscount + discount,
              freeItemsGiven |-> acc.freeItemsGiven + freeQuantity,
              freeItemsGivenDetails |->
                  Append(acc.freeItemsGivenDetails,
                         [product_id |-> item.product_id,
                          quantity |-> freeQuantity,
                          price |-> item.price,
                          discount |-> _roundPrice(discount)])]

\* buyArray and getArray are arrays in the source; only their emptiness and
\* membership are read, so they are held as sets.
calculateBxGyDiscount(cartItems, buyQuantity, getQuantity, buyArray, getArray, repetitionLimit) ==
    IF Len(cartItems) = 0 THEN CartIsEmpty
    ELSE IF buyArray = {}
    THEN [applicable |-> FALSE,
          reason |-> "No products defined in buy array",
          discountAmount |-> 0]
    ELSE IF getArray = {}
    THEN [applicable |-> FALSE,
          reason |-> "No products defined in get array",
          discountAmount |-> 0]
    ELSE IF buyQuantity = 0 \/ getQuantity = 0
    THEN CalculationError("Invalid buy or get quantity")
    ELSE
    LET buyCount == BuyCount(cartItems, buyArray) IN
    IF buyCount < buyQuantity
    THEN [applicable |-> FALSE,
          reason |-> "Need at least buyQuantity items from buy array",
          discountAmount |-> 0,
          breakdownInfo |->
              [buyArray |-> buyArray,
               buyQuantityRequired |-> buyQuantity,
               buyQuantityFound |-> buyCount,
               shortfall |-> buyQuantity - buyCount,
               buyItemsInCart |-> BuyItems(cartItems, buyArray)]]
    ELSE
    LET timesApplicable == buyCount \div buyQuantity
        timesToApply == TimesToApply(timesApplicable, repetitionLimit)
        getItems == FilterLines(cartItems, getArray, Len(cartItems))
    IN  IF Len(getItems) = 0
        THEN [applicable |-> FALSE,
              reason |-> "No eligible items found in cart to get for free",
              discountAmount |-> 0,
              breakdownInfo |->
                  [getArray |-> getArray,
                   cartProducts |-> CartProducts(cartItems)]]
        ELSE
        LET sorted == ArraysAfterSort(cartItems, getArray).getItems
            loop == FreeLoop(sorted, timesToApply * getQuantity, Len(sorted))
        IN  [applicable |-> TRUE,
             discountAmount |-> _roundPrice(loop.totalDiscount),
             breakdownInfo |->
                 [buyQuantityRequired |-> buyQuantity,
                  buyQuantityFound |-> buyCount,
                  getQuantityPerApplication |-> getQuantity,
                  timesApplicable |-> timesApplicable,
                  repetitionLimit |-> repetitionLimit,
                  timesApplied |-> timesToApply,
                  totalFreeItemsGiven |-> loop.freeItemsGiven,
                  freeItemsGivenDetails |-> loop.freeItemsGivenDetails,
                  totalDiscount |-> _roundPrice(loop.totalDiscount)]]

-----------------------------------------------------------------------------
(* The service at rest: an empty database and no call in flight *)

\* Service calls that can be in flight together.
Requests == {"r1", "r2"}

Idle == [op |-> "none", pc |-> "idle"]

InitService ==
    /\ coupons = <<>>
    /\ lastId = 0
    /\ usages = <<>>
    /\ requests = [r \in Requests |-> Idle]
    /\ now = 0

-----------------------------------------------------------------------------
(* State machine: the caller holds a cart, invokes one evaluator on it,     *)
(* reads the result and discards it before the next invocation.            *)

NoCall == [fn |-> "none"]

NoResult == [applicable |-> FALSE, reason |-> "not evaluated", discountAmount |-> 0]

Init ==
    /\ cartType \in CartTypes
    /\ cart \in (IF cartType = "array" THEN Carts ELSE {<<>>})
    /\ call = NoCall
    /\ result = NoResult
    /\ InitService

EvalCartWise ==
    /\ call = NoCall
    /\ \E couponConditions \in CouponConditions, discountConfig \in DiscountConfigs :
        /\ call' = [fn |-> "cartWise",
                    conditions |-> couponConditions,
                    discount |-> discountConfig]
        /\ result' = EvaluateOn(cartType, cart,
               calculateCartWiseDiscount(cart, couponConditions, discountConfig))
    /\ UNCHANGED <<cart, cartType>>
    /\ UNCHANGED serviceVars

EvalProductWise ==
    /\ call = NoCall
    /\ \E applicableProducts \in SUBSET Products, discountConfig \in DiscountConfigs :
        /\ call' = [fn |-> "productWise",
                    applicableProducts |-> applicableProducts,
                    discount |-> discountConfig]
        /\ result' = EvaluateOn(cartType, cart,
               calculateProductWiseDiscount(cart, applicableProducts, discountConfig))
    /\ UNCHANGED <<cart, cartType>>
    /\ UNCHANGED serviceVars

EvalBxGy ==
    /\ call = NoCall
    /\ \E buyQuantity \in BuyQuantities, getQuantity \in GetQuantities,
          buyArray \in SUBSET Products, getArray \in SUBSET Products,
          repetitionLimit \in RepetitionLimits :
        /\ call' = [fn |-> "bxgy",
                    buyQuantity |-> buyQuantity,
                    getQuantity |-> getQuantity,
                    buyArray |-> buyArray,
                    getArray |-> getArray,
                    repetitionLimit |-> repetitionLimit]
        /\ result' = EvaluateOn(cartType, cart,
               calculateBxGyDiscount(cart, buyQuantity, getQuantity,
                                     buyArray, getArray, repetitionLimit))
        \* STEP 6 is reached exactly on the path that ends applicable.
        /\ cart' = IF result'.applicable
                   THEN ArraysAfterSort(cart, getArray).cartItems
                   ELSE cart
    /\ UNCHANGED cartType
    /\ UNCHANGED serviceVars

\* The result is ephemeral: the caller drops it when the call has returned.
Discard ==
    /\ call # NoCall
    /\ call' = NoCall
    /\ result' = NoResult
    /\ UNCHANGED <<cart, cartType>>
    /\ UNCHANGED serviceVars

NextCartWise == EvalCartWise \/ Discard

SpecCartWise == Init /\ [][NextCartWise]_vars

NextProductWise == EvalProductWise \/ Discard

SpecProductWise == Init /\ [][NextProductWise]_vars

NextBxGy == EvalBxGy \/ Discard

SpecBxGy == Init /\ [][NextBxGy]_vars

Next == EvalCartWise \/ EvalProductWise \/ EvalBxGy \/ Discard

Spec == Init /\ [][Next]_vars

-----------------------------------------------------------------------------
(* The service: coupon documents and the calls of CouponService            *)

MaxCoupons == 3

RawCodes == {"SUMMER", " summer ", "WINTER"}

\* The schema's setters on code: trim and uppercase.
CastCode(code) == IF code = " summer " THEN "SUMMER" ELSE code

CartWiseBody ==
    [type |-> "CART_WISE",
     discount |-> [type |-> "PERCENTAGE", value |-> 10],
     conditions |-> [minimum_cart_value |-> <<200>>, maximum_discount |-> Undefined]]

\* A cart-wise coupon created without minimum_cart_value.
CartWiseOpenBody ==
    [type |-> "CART_WISE",
     discount |-> [type |-> "FIXED_AMOUNT", value |-> 100],
     conditions |-> [minimum_cart_value |-> Undefined, maximum_discount |-> Undefined]]

ProductWiseBody ==
    [type |-> "PRODUCT_WISE",
     discount |-> [type |-> "FIXED_AMOUNT", value |-> 100],
     conditions |-> [applicable_products |-> {"A"}]]

BxGyBody ==
    [type |-> "BXGY",
     discount |-> [type |-> "FIXED_AMOUNT", value |-> 0],
     conditions |-> [buy_quantity |-> 2, get_quantity |-> 1,
                     buy_from |-> {"A"}, get_from |-> {"B"},
                     repetition_limit |-> Undefined]]

CouponBodies == {CartWiseBody, CartWiseOpenBody, ProductWiseBody, BxGyBody}

CouponData(code, body, is_active, applicable_till, max_usage) ==
    [code |-> code, type |-> body.type, discount |-> body.discount,
     conditions |-> body.conditions, is_active |-> is_active,
     applicable_till |-> applicable_till, max_usage |-> max_usage]

\* Request bodies of POST /coupons and of PUT /coupons/:id.
CreateBodies ==
    {CouponData(code, CartWiseBody, is_active, Undefined, Undefined) :
        code \in RawCodes, is_active \in BOOLEAN}

UpdateBodies ==
    {[is_active |-> b] : b \in BOOLEAN} \cup {[code |-> c] : c \in RawCodes}

AlreadyExists == "Coupon code already exists"

NotFound == "Coupon not found"

DuplicateKeyError == "E11000 duplicate key error"

NoError == "none"

\* Coupon.findOne({ code })
findOne(store, code) == {id \in DOMAIN store : store[id].code = CastCode(code)}

\* new Coupon({...couponData, current_usage: 0, ...})
NewCoupon(couponData) ==
    [f \in DOMAIN couponData \cup {"current_usage"} |->
        IF f = "current_usage" THEN 0
        ELSE IF f = "code" THEN CastCode(couponData.code)
        ELSE couponData[f]]

\* The update document cast by the schema and set on the stored document.
UpdatedCoupon(doc, updateData) ==
    [f \in DOMAIN doc |->
        IF f \notin DOMAIN updateData THEN doc[f]
        ELSE IF f = "code" THEN CastCode(updateData.code)
        ELSE updateData[f]]

\* Mutant of DuplicateKey: the collection has no unique index on code.
DuplicateKeyNever(store, id, code) == FALSE

\* The unique index on code: writing code into document id is rejected when
\* another document holds it.
DuplicateKey(store, id, code) ==
    \E other \in DOMAIN store \ {id} : store[other].code = code

StoreWith(store, id, doc) ==
    [i \in DOMAIN store \cup {id} |-> IF i = id THEN doc ELSE store[i]]

StoreWithout(store, id) == [i \in DOMAIN store \ {id} |-> store[i]]

Done(request, error) ==
    [f \in DOMAIN request \cup {"error"} |->
        IF f = "pc" THEN "done" ELSE IF f = "error" THEN error ELSE request[f]]

InitEngineIdle ==
    /\ cartType = "array"
    /\ cart = <<>>
    /\ call = NoCall
    /\ result = NoResult

InitCrud == InitEngineIdle /\ InitService

\* createCoupon up to its first await: the lookup of the code.
CreateFindOne(r, couponData) ==
    /\ requests[r] = Idle
    /\ lastId + Cardinality({q \in Requests : requests[q].pc = "save"}) < MaxCoupons
    /\ LET request == [op |-> "createCoupon", pc |-> "save", couponData |-> couponData]
           existing == findOne(coupons, couponData.code)
       IN  requests' = [requests EXCEPT ![r] =
               IF existing # {} THEN Done(request, AlreadyExists) ELSE request]
    /\ UNCHANGED <<coupons, lastId, usages, now>>
    /\ UNCHANGED engineVars

\* createCoupon from the lookup's answer on: coupon.save().
CreateSave(r) ==
    /\ requests[r].pc = "save"
    /\ LET coupon == NewCoupon(requests[r].couponData)
           id == lastId + 1
       IN  IF DuplicateKey(coupons, id, coupon.code)
           THEN /\ requests' = [requests EXCEPT ![r] = Done(@, DuplicateKeyError)]
                /\ UNCHANGED <<coupons, lastId>>
           ELSE /\ coupons' = StoreWith(coupons, id, coupon)
                /\ lastId' = id
                /\ requests' = [requests EXCEPT ![r] = Done(@, NoError)]
    /\ UNCHANGED <<usages, now>>
    /\ UNCHANGED engineVars

\* updateCoupon: one findByIdAndUpdate.
UpdateCoupon(r, couponId, updateData) ==
    /\ requests[r] = Idle
    /\ LET request == [op |-> "updateCoupon", pc |-> "done",
                       couponId |-> couponId, updateData |-> updateData]
       IN  IF couponId \notin DOMAIN coupons
           THEN /\ requests' = [requests EXCEPT ![r] = Done(request, NotFound)]
                /\ UNCHANGED coupons
           ELSE LET coupon == UpdatedCoupon(coupons[couponId], updateData)
                IN  IF DuplicateKey(coupons, couponId, coupon.code)
                    THEN /\ requests' = [requests EXCEPT ![r] =
                                             Done(request, DuplicateKeyError)]
                         /\ UNCHANGED coupons
                    ELSE /\ coupons' = StoreWith(coupons, couponId, coupon)
                         /\ requests' = [requests EXCEPT ![r] = Done(request, NoError)]
    /\ UNCHANGED <<lastId, usages, now>>
    /\ UNCHANGED engineVars

\* deleteCoupon: one findByIdAndDelete.
DeleteCoupon(r, couponId) ==
    /\ requests[r] = Idle
    /\ LET request == [op |-> "deleteCoupon", pc |-> "done", couponId |-> couponId]
       IN  IF couponId \notin DOMAIN coupons
           THEN /\ requests' = [requests EXCEPT ![r] = Done(request, NotFound)]
                /\ UNCHANGED coupons
           ELSE /\ coupons' = StoreWithout(coupons, couponId)
                /\ requests' = [requests EXCEPT ![r] = Done(request, NoError)]
    /\ UNCHANGED <<lastId, usages, now>>
    /\ UNCHANGED engineVars

\* The call has returned or thrown; its outcome has gone to the caller.
Return(r) ==
    /\ requests[r].pc = "done"
    /\ requests' = [requests EXCEPT ![r] = Idle]
    /\ UNCHANGED <<coupons, lastId, usages, now>>
    /\ UNCHANGED engineVars

CreateCouponStep ==
    \E r \in Requests :
        \/ \E couponData \in CreateBodies : CreateFindOne(r, couponData)
        \/ CreateSave(r)

UpdateCouponStep ==
    \E r \in Requests, couponId \in 1..MaxCoupons, updateData \in UpdateBodies :
        UpdateCoupon(r, couponId, updateData)

DeleteCouponStep ==
    \E r \in Requests, couponId \in 1..MaxCoupons : DeleteCoupon(r, couponId)

ReturnStep == \E r \in Requests : Return(r)

NextCrud == CreateCouponStep \/ UpdateCouponStep \/ DeleteCouponStep \/ ReturnStep

SpecCrud == InitCrud /\ [][NextCrud]_vars

-----------------------------------------------------------------------------
(* The service: checking and applying a coupon *)

MaxApplies == 2

MaxNow == 1

\* Carts the controller has validated and handed on.
ServiceCarts ==
    {<<[product_id |-> "A", price |-> 500, quantity |-> 1]>>,
     <<[product_id |-> "A", price |-> 50, quantity |-> 2],
       [product_id |-> "B", price |-> 500, quantity |-> 1]>>,
     <<[product_id |-> "A", price |-> 50, quantity |-> 2]>>,
     <<[product_id |-> "C", price |-> 50, quantity |-> 1]>>}

\* Deactivation and reactivation: PUT /coupons/:id with { is_active }.
StatusBodies == {[is_active |-> b] : b \in BOOLEAN}

CannotBeApplied == "Coupon cannot be applied to this cart"

\* total >= coupon.conditions.minimum_cart_value; a comparison with undefined
\* is false.
_checkCartWise(coupon, cartItems) ==
    LET total == SumLines(cartItems, Len(cartItems))
        minimum == coupon.conditions.minimum_cart_value
    IN  IF minimum # Undefined /\ total >= minimum[1]
        THEN [applicable |-> TRUE]
        ELSE [applicable |-> FALSE, reason |-> "Cart total below minimum"]

_checkProductWise(coupon, cartItems) ==
    IF \E i \in 1..Len(cartItems) :
           cartItems[i].product_id \in coupon.conditions.applicable_products
    THEN [applicable |-> TRUE]
    ELSE [applicable |-> FALSE, reason |-> "No applicable products in cart"]

_checkBxGy(coupon, cartItems) ==
    LET buyItems == FilterLines(cartItems, coupon.conditions.buy_from, Len(cartItems))
        buyCount == SumQuantity(buyItems, Len(buyItems))
    IN  IF buyCount >= coupon.conditions.buy_quantity
        THEN [applicable |-> TRUE]
        ELSE [applicable |-> FALSE, reason |-> "Need more items from buy array"]

\* new Date(coupon.applicable_till) < now
HasExpired(coupon, time) ==
    coupon.applicable_till # Undefined /\ coupon.applicable_till[1] < time

isCouponApplicable(coupon, cartItems, time) ==
    IF ~coupon.is_active
    THEN [applicable |-> FALSE, reason |-> "Coupon is inactive"]
    ELSE IF HasExpired(coupon, time)
    THEN [applicable |-> FALSE, reason |-> "Coupon has expired"]
    ELSE IF Truthy(coupon.max_usage) /\ coupon.current_usage >= coupon.max_usage[1]
    THEN [applicable |-> FALSE, reason |-> "Maximum usage reached"]
    ELSE IF coupon.type = "CART_WISE" THEN _checkCartWise(coupon, cartItems)
    ELSE IF coupon.type = "PRODUCT_WISE" THEN _checkProductWise(coupon, cartItems)
    ELSE IF coupon.type = "BXGY" THEN _checkBxGy(coupon, cartItems)
    ELSE [applicable |-> FALSE, reason |-> "Unknown coupon type"]

\* Coupon.find({ is_active: true }) and the loop over what it returned.
getApplicableCoupons(store, cartItems, time) ==
    {id \in DOMAIN store :
        /\ store[id].is_active
        /\ isCouponApplicable(store[id], cartItems, time).applicable}

\* The switch of applyCouponToCart on coupon.type.
DiscountResult(coupon, cartItems) ==
    IF coupon.type = "CART_WISE"
    THEN EvaluateOn("array", cartItems,
             calculateCartWiseDiscount(cartItems, coupon.conditions, coupon.discount))
    ELSE IF coupon.type = "PRODUCT_WISE"
    THEN EvaluateOn("array", cartItems,
             calculateProductWiseDiscount(cartItems,
                 coupon.conditions.applicable_products, coupon.discount))
    ELSE EvaluateOn("array", cartItems,
             calculateBxGyDiscount(cartItems,
                 coupon.conditions.buy_quantity, coupon.conditions.get_quantity,
                 coupon.conditions.buy_from, coupon.conditions.get_from,
                 coupon.conditions.repetition_limit))

\* A database that holds one coupon, created by an earlier createCoupon.
InitApply ==
    /\ InitEngineIdle
    /\ \E body \in CouponBodies, is_active \in BOOLEAN,
          applicable_till \in {Undefined, <<0>>}, max_usage \in {Undefined, <<1>>} :
           coupons = StoreWith(<<>>, 1,
               NewCoupon(CouponData("SUMMER", body, is_active, applicable_till, max_usage)))
    /\ lastId = 1
    /\ usages = <<>>
    /\ requests = [r \in Requests |-> Idle]
    /\ now = 0

\* applyCouponToCart up to its first database write: getCouponById, the
\* applicability check and the calculation, all on the document as read.
ApplyRead(r, couponId, cartItems) ==
    /\ requests[r] = Idle
    /\ Len(usages) + Cardinality({q \in Requests :
                                     requests[q].pc \in {"increment", "record"}})
           < MaxApplies
    /\ couponId \in DOMAIN coupons => coupons[couponId].current_usage < MaxApplies
    /\ LET request == [op |-> "applyCouponToCart", pc |-> "increment",
                       couponId |-> couponId, cartItems |-> cartItems]
       IN  requests' = [requests EXCEPT ![r] =
               IF couponId \notin DOMAIN coupons THEN Done(request, NotFound)
               ELSE LET coupon == coupons[couponId]
                        discountResult == DiscountResult(coupon, cartItems)
                    IN  IF ~isCouponApplicable(coupon, cartItems, now).applicable
                        THEN Done(request, CannotBeApplied)
                        ELSE IF ~discountResult.applicable
                        THEN Done(request, discountResult.reason)
                        ELSE [op |-> "applyCouponToCart", pc |-> "increment",
                              couponId |-> couponId, cartItems |-> cartItems,
                              coupon |-> coupon, discountResult |-> discountResult]]
    /\ UNCHANGED <<coupons, lastId, usages, now>>
    /\ UNCHANGED engineVars

\* Coupon.findByIdAndUpdate(coupon._id, { current_usage: coupon.current_usage + 1 })
ApplyIncrement(r) ==
    /\ requests[r].pc = "increment"
    /\ LET id == requests[r].couponId
       IN  coupons' =
               IF id \in DOMAIN coupons
               THEN [coupons EXCEPT
                        ![id].current_usage = requests[r].coupon.current_usage + 1]
               ELSE coupons
    /\ requests' = [requests EXCEPT ![r].pc = "record"]
    /\ UNCHANGED <<lastId, usages, now>>
    /\ UNCHANGED engineVars

\* CouponUsage.create({...}) and the return of the discount.
ApplyRecord(r) ==
    /\ requests[r].pc = "record"
    /\ usages' = Append(usages,
           [coupon_id |-> requests[r].couponId,
            discount_amount |-> requests[r].discountResult.discountAmount,
            cart_total |-> SumLines(requests[r].cartItems, Len(requests[r].cartItems))])
    /\ requests' = [requests EXCEPT ![r] =
           [op |-> "applyCouponToCart", pc |-> "done", error |-> NoError,
            couponId |-> @.couponId, cartItems |-> @.cartItems,
            discount_amount |-> @.discountResult.discountAmount]]
    /\ UNCHANGED <<coupons, lastId, now>>
    /\ UNCHANGED engineVars

\* getApplicableCoupons: one query and a loop without further database access.
GetApplicableCoupons(r, cartItems) ==
    /\ requests[r] = Idle
    /\ requests' = [requests EXCEPT ![r] =
           [op |-> "getApplicableCoupons", pc |-> "done", error |-> NoError,
            cartItems |-> cartItems,
            applicable |-> getApplicableCoupons(coupons, cartItems, now)]]
    /\ UNCHANGED <<coupons, lastId, usages, now>>
    /\ UNCHANGED engineVars

\* Time passes.
Tick ==
    /\ now < MaxNow
    /\ now' = now + 1
    /\ UNCHANGED <<coupons, lastId, usages, requests>>
    /\ UNCHANGED engineVars

ApplyCouponStep ==
    \E r \in Requests :
        \/ \E couponId \in 1..2, cartItems \in ServiceCarts :
               ApplyRead(r, couponId, cartItems)
        \/ ApplyIncrement(r)
        \/ ApplyRecord(r)

GetApplicableStep ==
    \E r \in Requests, cartItems \in ServiceCarts : GetApplicableCoupons(r, cartItems)

SetStatusStep ==
    \E r \in Requests, updateData \in StatusBodies : UpdateCoupon(r, 1, updateData)

NextApply == ApplyCouponStep \/ GetApplicableStep \/ SetStatusStep \/ Tick \/ ReturnStep

SpecApply == InitApply /\ [][NextApply]_vars

-----------------------------------------------------------------------------
(* The service with a database whose writes can fail: the awaited promise   *)
(* of a write rejects, and applyCouponToCart, which catches nothing, throws. *)

WriteFailed == "storage write failed"

\* Coupon.findByIdAndUpdate rejects: nothing is written.
ApplyIncrementFails(r) ==
    /\ requests[r].pc = "increment"
    /\ requests' = [requests EXCEPT ![r] =
           [op |-> "applyCouponToCart", pc |-> "done", error |-> WriteFailed,
            couponId |-> @.couponId, cartItems |-> @.cartItems]]
    /\ UNCHANGED <<coupons, lastId, usages, now>>
    /\ UNCHANGED engineVars

\* CouponUsage.create rejects: the increment has been written, no usage is.
ApplyRecordFails(r) ==
    /\ requests[r].pc = "record"
    /\ requests' = [requests EXCEPT ![r] =
           [op |-> "applyCouponToCart", pc |-> "done", error |-> WriteFailed,
            couponId |-> @.couponId, cartItems |-> @.cartItems]]
    /\ UNCHANGED <<coupons, lastId, usages, now>>
    /\ UNCHANGED engineVars

WriteFailsStep == \E r \in Requests : ApplyIncrementFails(r) \/ ApplyRecordFails(r)

NextApplyFaulty == NextApply \/ WriteFailsStep

SpecApplyFaulty == InitApply /\ [][NextApplyFaulty]_vars

-----------------------------------------------------------------------------
(* The controller: request bodies, cart validation, and the mapping of the  *)
(* service's outcome to an HTTP status                                      *)

\* A JSON number, a JSON value that is not a number, an absent field.
Num(n) == [type |-> "number", value |-> n]

Text == [type |-> "string", value |-> 0]

Missing == [type |-> "undefined", value |-> ""]

\* A well-formed cart line as it stands in a request body.
TypedLine(line) ==
    [isNull |-> FALSE,
     product_id |-> [type |-> "string", value |-> line.product_id],
     price |-> Num(line.price),
     quantity |-> Num(line.quantity)]

TypedCart(cartItems) == [i \in 1..Len(cartItems) |-> TypedLine(cartItems[i])]

GoodItem == TypedLine([product_id |-> "A", price |-> 500, quantity |-> 1])

\* The JSON value null standing where an item is expected.
NullItem == [GoodItem EXCEPT !.isNull = TRUE]

DefectiveItems ==
    {[GoodItem EXCEPT !.product_id = Missing],
     [GoodItem EXCEPT !.price = Text],
     [GoodItem EXCEPT !.price = Num(0 - 100)],
     [GoodItem EXCEPT !.quantity = Text],
     [GoodItem EXCEPT !.quantity = Num(0)],
     [GoodItem EXCEPT !.quantity = Num(0 - 1)],
     NullItem}

HttpCarts ==
    {TypedCart(cartItems) : cartItems \in ServiceCarts}
    \cup {<<>>}
    \cup UNION {{<<item>>, <<GoodItem, item>>} : item \in DefectiveItems}

\* req.body: the array itself, { cartItems: [...] }, { items: [...] }, an
\* object with neither, or no body.
CartShapes == {"array", "cartItems", "items"}

HttpBodies ==
    [shape : {"array"}, items : HttpCarts]
    \cup [shape : CartShapes, items : {<<>>, <<GoodItem>>, <<NullItem>>}]
    \cup {[shape |-> "other", items |-> <<>>], [shape |-> "none", items |-> <<>>]}

InvalidStructure == "Invalid cart structure"

EmptyCart == "Cart is empty or invalid"

InvalidItem == "Invalid cart item"

TypeErrorMessage == "Cannot read properties of null"

\* The callback of cartItems.every on an item that is an object.
ItemIsValid(item) ==
    /\ item.product_id.type # "undefined"
    /\ item.price.type = "number"
    /\ item.price.value >= 0
    /\ item.quantity.type = "number"
    /\ item.quantity.value > 0

RECURSIVE Every(_, _)
\* cartItems.every(item => item.product_id && ...) from index i on: it stops
\* at the first item that fails, and reading a property of null throws.
Every(items, i) ==
    IF i > Len(items) THEN "true"
    ELSE IF items[i].isNull THEN "TypeError"
    ELSE IF ~ItemIsValid(items[i]) THEN "false"
    ELSE Every(items, i + 1)

\* What the service is called with.
CartItemsOf(body) ==
    [i \in 1..Len(body.items) |->
        [product_id |-> body.items[i].product_id.value,
         price |-> body.items[i].price.value,
         quantity |-> body.items[i].quantity.value]]

\* error.message.includes('not found'), .includes('cannot be applied'), on
\* the messages that can reach a catch block.
IncludesNotFound(message) == message = NotFound

IncludesCannotBeApplied(message) == message = CannotBeApplied

\* Mutant of StatusOf: the catch block of applyCouponToCart lacks the
\* 'not found' branch.
StatusOfApplyUnmapped(op, error) ==
    IF error = NoError THEN (IF op = "createCoupon" THEN 201 ELSE 200)
    ELSE IF op = "createCoupon" THEN 400
    ELSE IF op = "getApplicableCoupons" THEN 500
    ELSE IF op = "applyCouponToCart"
    THEN (IF IncludesCannotBeApplied(error) THEN 400 ELSE 500)
    ELSE IF IncludesNotFound(error) THEN 404
    ELSE IF op = "updateCoupon" THEN 400
    ELSE 500

\* The status each handler answers with: its success status, or the one its
\* catch block picks for the error thrown.
StatusOf(op, error) ==
    IF error = NoError THEN (IF op = "createCoupon" THEN 201 ELSE 200)
    ELSE IF op = "createCoupon" THEN 400
    ELSE IF op = "getApplicableCoupons" THEN 500
    ELSE IF IncludesNotFound(error) THEN 404
    ELSE IF op = "applyCouponToCart"
    THEN (IF IncludesCannotBeApplied(error) THEN 400 ELSE 500)
    ELSE IF op = "updateCoupon" THEN 400
    ELSE 500

\* The validation both cart handlers run before calling the service: the
\* status it answers with, or 0 when the cart goes on to the service.
CartStatus(op, body) ==
    IF body.shape \notin CartShapes THEN 400
    ELSE IF Len(body.items) = 0 THEN 400
    ELSE IF Every(body.items, 1) = "TypeError" THEN StatusOf(op, TypeErrorMessage)
    ELSE IF Every(body.items, 1) = "false" THEN 400
    ELSE 0

CartMessage(body) ==
    IF body.shape \notin CartShapes THEN InvalidStructure
    ELSE IF Len(body.items) = 0 THEN EmptyCart
    ELSE IF Every(body.items, 1) = "TypeError" THEN TypeErrorMessage
    ELSE InvalidItem

Responded(op, status, error) ==
    [op |-> op, pc |-> "responded", status |-> status, error |-> error]

\* POST /coupons/:id/apply up to the first await of the service.
HttpApplyCoupon(r, couponId, body) ==
    /\ requests[r] = Idle
    /\ IF CartStatus("applyCouponToCart", body) # 0
       THEN /\ requests' = [requests EXCEPT ![r] =
                   Responded("applyCouponToCart",
                             CartStatus("applyCouponToCart", body), CartMessage(body))]
            /\ UNCHANGED <<coupons, lastId, usages, now>>
            /\ UNCHANGED engineVars
       ELSE ApplyRead(r, couponId, CartItemsOf(body))

\* POST /coupons/check/applicable.
HttpGetApplicableCoupons(r, body) ==
    /\ requests[r] = Idle
    /\ IF CartStatus("getApplicableCoupons", body) # 0
       THEN /\ requests' = [requests EXCEPT ![r] =
                   Responded("getApplicableCoupons",
                             CartStatus("getApplicableCoupons", body), CartMessage(body))]
            /\ UNCHANGED <<coupons, lastId, usages, now>>
            /\ UNCHANGED engineVars
       ELSE GetApplicableCoupons(r, CartItemsOf(body))

\* getCouponById: one findById.
GetCouponById(r, couponId) ==
    /\ requests[r] = Idle
    /\ LET request == [op |-> "getCouponById", pc |-> "done", couponId |-> couponId]
       IN  requests' = [requests EXCEPT ![r] =
               Done(request, IF couponId \in DOMAIN coupons THEN NoError ELSE NotFound)]
    /\ UNCHANGED <<coupons, lastId, usages, now>>
    /\ UNCHANGED engineVars

\* The handler sends its response: res.status(...).json(...).
Respond(r) ==
    /\ requests[r].pc = "done"
    /\ requests' = [requests EXCEPT ![r] =
           Responded(@.op, StatusOf(@.op, @.error), @.error)]
    /\ UNCHANGED <<coupons, lastId, usages, now>>
    /\ UNCHANGED engineVars

\* The response has gone out; the slot serves the next request.
Close(r) ==
    /\ requests[r].pc = "responded"
    /\ requests' = [requests EXCEPT ![r] = Idle]
    /\ UNCHANGED <<coupons, lastId, usages, now>>
    /\ UNCHANGED engineVars

HttpApplyStep ==
    \E r \in Requests :
        \/ \E couponId \in 1..2, body \in HttpBodies : HttpApplyCoupon(r, couponId, body)
        \/ ApplyIncrement(r)
        \/ ApplyRecord(r)

HttpGetApplicableStep ==
    \E r \in Requests, body \in HttpBodies : HttpGetApplicableCoupons(r, body)

RespondStep == \E r \in Requests : Respond(r)

CloseStep == \E r \in Requests : Close(r)

NextHttp ==
    \/ HttpApplyStep
    \/ HttpGetApplicableStep
    \/ RespondStep
    \/ CloseStep
    \/ Tick

SpecHttp == InitApply /\ [][NextHttp]_vars

\* The routes on one coupon id: a store that holds coupon 1, usable by a
\* cart of 0.02 or more, and never held coupon 2.
InitLookup ==
    /\ InitEngineIdle
    /\ coupons = StoreWith(<<>>, 1,
           NewCoupon(CouponData("SUMMER", CartWiseBody, TRUE, Undefined, Undefined)))
    /\ lastId = 1
    /\ usages = <<>>
    /\ requests = [r \in Requests |-> Idle]
    /\ now = 0

WellFormedBodies ==
    {[shape |-> "cartItems", items |-> TypedCart(cartItems)] : cartItems \in ServiceCarts}

LookupApplyStep ==
    \E r \in Requests :
        \/ \E couponId \in 1..2, body \in WellFormedBodies :
               HttpApplyCoupon(r, couponId, body)
        \/ ApplyIncrement(r)
        \/ ApplyRecord(r)

GetCouponStep == \E r \in Requests, couponId \in 1..2 : GetCouponById(r, couponId)

HttpUpdateStep ==
    \E r \in Requests, couponId \in 1..2, updateData \in StatusBodies :
        UpdateCoupon(r, couponId, updateData)

HttpDeleteStep == \E r \in Requests, couponId \in 1..2 : DeleteCoupon(r, couponId)

NextLookup ==
    \/ LookupApplyStep
    \/ GetCouponStep
    \/ HttpUpdateStep
    \/ HttpDeleteStep
    \/ RespondStep
    \/ CloseStep

SpecLookup == InitLookup /\ [][NextLookup]_vars

-----------------------------------------------------------------------------
(* The usage counter under every service call that passes a request body on *)

\* Bodies of POST /coupons and PUT /coupons/:id that name current_usage.
CounterCreateBodies ==
    {[f \in {"code", "type", "discount", "conditions", "is_active",
             "applicable_till", "max_usage", "current_usage"} |->
         IF f = "current_usage" THEN n
         ELSE CouponData("WINTER", CartWiseBody, TRUE, Undefined, Undefined)[f]] :
        n \in 1..MaxApplies}

CounterUpdateBodies ==
    StatusBodies \cup {[current_usage |-> n] : n \in 0..MaxApplies}

CounterCreateStep ==
    \E r \in Requests :
        \/ \E couponData \in CounterCreateBodies : CreateFindOne(r, couponData)
        \/ CreateSave(r)

CounterUpdateStep ==
    \E r \in Requests, updateData \in CounterUpdateBodies : UpdateCoupon(r, 1, updateData)

NextCounter ==
    \/ ApplyCouponStep
    \/ GetApplicableStep
    \/ CounterCreateStep
    \/ CounterUpdateStep
    \/ ReturnStep

SpecCounter == InitLookup /\ [][NextCounter]_vars

-----------------------------------------------------------------------------
(* The rounding helper on its own: a number is rounded, and the rounded     *)
(* value is rounded again.                                                  *)

MaxRoundInput == 300

RoundInputs == (0 - MaxRoundInput)..MaxRoundInput

InitRound == InitEngineIdle /\ InitService

EvalRoundPrice ==
    /\ call = NoCall
    /\ \E price \in RoundInputs :
        /\ call' = [fn |-> "_roundPrice", price |-> price, again |-> FALSE]
        /\ result' = [value |-> _roundPrice(price)]
    /\ UNCHANGED <<cart, cartType>>
    /\ UNCHANGED serviceVars

EvalRoundPriceAgain ==
    /\ call.fn = "_roundPrice"
    /\ ~call.again
    /\ call' = [fn |-> "_roundPrice", price |-> result.value, again |-> TRUE]
    /\ result' = [value |-> _roundPrice(result.value)]
    /\ UNCHANGED <<cart, cartType>>
    /\ UNCHANGED serviceVars

NextRound == EvalRoundPrice \/ EvalRoundPriceAgain \/ Discard

SpecRound == InitRound /\ [][NextRound]_vars

-----------------------------------------------------------------------------
(* Vocabulary of the properties, defined apart from the evaluators *)

KnownDiscountTypes == {"PERCENTAGE", "FIXED_AMOUNT"}

RECURSIVE TotalOf(_)
\* total(C): the sum of price * quantity over the lines of C.
TotalOf(C) ==
    IF C = <<>> THEN 0
    ELSE Head(C).price * Head(C).quantity + TotalOf(Tail(C))

\* m of a cart-wise coupon: a missing minimum is 0.
MinimumOf(conditions) ==
    IF conditions.minimum_cart_value = Undefined THEN 0
    ELSE conditions.minimum_cart_value[1]

\* round2(x): the multiple r of 0.01 with r - 0.005 <= x < r + 0.005.
Round2(x) ==
    CHOOSE r \in {k * 100 : k \in ((x \div 100) - 1)..((x \div 100) + 1)} :
        r - 50 <= x /\ x < r + 50

\* An EvaluationResult, as opposed to a raised error.
IsEvaluationResult(r) == {"applicable", "discountAmount"} \subseteq DOMAIN r

EligibleIndices(C, ids) == {i \in 1..Len(C) : C[i].product_id \in ids}

RECURSIVE SumOver(_, _, _)
\* The sum of f[i] over the finite index set I (f is a sequence).
SumOver(f, I, n) ==
    IF n = 0 THEN 0
    ELSE (IF n \in I THEN f[n] ELSE 0) + SumOver(f, I, n - 1)

\* The cart C without its i-th line.
WithoutLine(C, i) == SubSeq(C, 1, i - 1) \o SubSeq(C, i + 1, Len(C))

\* The per-line discount breakdown of a product-wise result.
LineBreakdown(r) ==
    IF r.applicable THEN r.breakdownInfo.discountedItems ELSE <<>>

CartWiseEvaluated == call.fn = "cartWise" /\ Len(cart) > 0

ProductWiseEvaluated == call.fn = "productWise" /\ Len(cart) > 0

BxGyEvaluated ==
    /\ call.fn = "bxgy"
    /\ Len(cart) > 0
    /\ call.buyArray # {}
    /\ call.getArray # {}

-----------------------------------------------------------------------------
(* Claims *)

\* C1: for a non-empty cart and a cart-wise coupon with a valid discount kind,
\* the result is applicable exactly when total(C) >= m, a missing minimum
\* counting as 0.
C1_ApplicableIffMinimumMet ==
    (CartWiseEvaluated /\ call.discount.type \in KnownDiscountTypes)
        => (result.applicable <=> TotalOf(cart) >= MinimumOf(call.conditions))

\* C1 witness: a cart whose total equals a positive minimum is accepted.
C1_Witness ==
    /\ CartWiseEvaluated
    /\ call.discount.type \in KnownDiscountTypes
    /\ call.conditions.minimum_cart_value = <<200>>
    /\ TotalOf(cart) = 200
    /\ result.applicable

\* C2: for a cart-wise PERCENTAGE coupon on a cart that meets the minimum, the
\* discount never exceeds maximumDiscount when the cap is set (any value >= 0),
\* and equals round2(total * pct / 100) when the cap is not set or not reached.
C2_PercentageWithinCap ==
    (/\ CartWiseEvaluated
     /\ call.discount.type = "PERCENTAGE"
     /\ TotalOf(cart) >= MinimumOf(call.conditions))
        => LET cap == call.conditions.maximum_discount
               raw == (TotalOf(cart) * call.discount.value) \div 100
           IN  /\ cap # Undefined => result.discountAmount <= cap[1]
               /\ (cap = Undefined \/ raw <= cap[1])
                      => result.discountAmount = Round2(raw)

\* C3: a cart-wise coupon with maximumDiscount = 0 on a cart that meets the
\* minimum is applicable with discountAmount = 0.
C3_ZeroCapGivesZeroDiscount ==
    (/\ CartWiseEvaluated
     /\ call.discount.type \in KnownDiscountTypes
     /\ call.conditions.maximum_discount = <<0>>
     /\ TotalOf(cart) >= MinimumOf(call.conditions))
        => (result.applicable /\ result.discountAmount = 0)

\* C4: with a discount kind that is neither PERCENTAGE nor FIXED_AMOUNT, the
\* cart-wise and product-wise evaluators raise an input error: what comes back
\* is not an EvaluationResult.
C4_UnknownKindRaises ==
    (/\ call.fn \in {"cartWise", "productWise"}
     /\ Len(cart) > 0
     /\ call.discount.type \notin KnownDiscountTypes)
        => ~IsEvaluationResult(result)

\* C5: every result of the three evaluators has discountAmount >= 0, and a
\* result that is not applicable has discountAmount = 0 and carries a reason.
C5_ResultShape ==
    call.fn # "none"
        => /\ result.discountAmount >= 0
           /\ ~result.applicable
                  => (result.discountAmount = 0 /\ "reason" \in DOMAIN result)

\* C5 witness: a BxGy evaluation rejected for lack of free-item candidates
\* although the buy condition is met.
C5_Witness ==
    /\ BxGyEvaluated
    /\ ~result.applicable
    /\ result.reason = "No eligible items found in cart to get for free"

\* C6: the discount of a cart-wise or product-wise coupon never exceeds the
\* cart total.
C6_DiscountWithinCartTotal ==
    (/\ call.fn \in {"cartWise", "productWise"}
     /\ call.discount.type \in KnownDiscountTypes)
        => result.discountAmount <= TotalOf(cart)

\* C7: in a product-wise evaluation the discount given on each eligible line
\* never exceeds that line's total.
C7_LineDiscountWithinLineTotal ==
    (ProductWiseEvaluated /\ call.discount.type \in KnownDiscountTypes)
        => \A k \in 1..Len(LineBreakdown(result)) :
               LineBreakdown(result)[k].discount
                   <= LineBreakdown(result)[k].itemTotal

\* C8: product-wise, removing a line whose product is not eligible (leaving at
\* least one line) changes neither applicable, nor discountAmount, nor the
\* per-line breakdown; and no line outside the allow-list is in the breakdown.
C8_IneligibleLinesIrrelevant ==
    call.fn = "productWise"
        => /\ \A i \in 1..Len(cart) :
                  (Len(cart) > 1 /\ cart[i].product_id \notin call.applicableProducts)
                      => LET without ==
                                 calculateProductWiseDiscount(
                                     WithoutLine(cart, i),
                                     call.applicableProducts, call.discount)
                         IN  /\ without.applicable = result.applicable
                             /\ without.discountAmount = result.discountAmount
                             /\ LineBreakdown(without) = LineBreakdown(result)
           /\ \A k \in 1..Len(LineBreakdown(result)) :
                  LineBreakdown(result)[k].product_id \in call.applicableProducts

\* C8 witness: an applicable result on a two-line cart, one line eligible and
\* the other not.
C8_Witness ==
    /\ call.fn = "productWise"
    /\ Len(cart) = 2
    /\ cart[1].product_id \notin call.applicableProducts
    /\ cart[2].product_id \in call.applicableProducts
    /\ result.applicable
    /\ result.discountAmount > 0

C10_BxGyApplicableIff ==
    BxGyEvaluated
        => LET quantities == [i \in 1..Len(cart) |-> cart[i].quantity]
               buyCount == SumOver(quantities,
                                   EligibleIndices(cart, call.buyArray), Len(cart))
           IN  result.applicable
                   <=> (/\ buyCount >= call.buyQuantity
                        /\ EligibleIndices(cart, call.getArray) # {})

\* C10 witness: an applicable BxGy result whose discount is 0 because every
\* free-item candidate is priced 0.
C10_Witness ==
    /\ BxGyEvaluated
    /\ result.applicable
    /\ result.discountAmount = 0
    /\ result.breakdownInfo.totalFreeItemsGiven > 0

\* The evaluator calls, as opposed to a call of the rounding helper.
EvaluatorCalls == {"cartWise", "productWise", "bxgy"}

\* The quantities of the lines of C, and of the entries of a breakdown.
QuantitiesOf(C) == [i \in 1..Len(C) |-> C[i].quantity]

\* buyCount of the claims: the quantity of the lines whose product is in ids.
QuantityIn(C, ids) == SumOver(QuantitiesOf(C), EligibleIndices(C, ids), Len(C))

\* The per-line free-item breakdown of an applicable BxGy result.
FreeDetails == result.breakdownInfo.freeItemsGivenDetails

\* Units freed at price p, and units of get-eligible cart lines priced p.
FreedAt(p) ==
    SumOver(QuantitiesOf(FreeDetails),
            {k \in 1..Len(FreeDetails) : FreeDetails[k].price = p},
            Len(FreeDetails))

AvailableAt(p) ==
    SumOver(QuantitiesOf(cart),
            {i \in EligibleIndices(cart, call.getArray) : cart[i].price = p},
            Len(cart))

\* The combined price of the units the breakdown marks free.
FreedValue ==
    SumOver([k \in 1..Len(FreeDetails) |->
                 FreeDetails[k].quantity * FreeDetails[k].price],
            1..Len(FreeDetails), Len(FreeDetails))

\* x is a multiple of 0.01: it equals round2 of itself.
IsRounded(x) == Round2(x) = x

\* C11: in every applicable BxGy result timesApplicable is
\* floor(buyCount / buyQuantity) and timesApplied is
\* min(timesApplicable, repetitionLimit) when a limit is set, else
\* timesApplicable; so 1 <= timesApplied <= timesApplicable, and
\* timesApplied <= repetitionLimit.
C11_TimesApplied ==
    (BxGyEvaluated /\ result.applicable)
        => LET b == result.breakdownInfo
               buyCount == QuantityIn(cart, call.buyArray)
               limit == call.repetitionLimit
           IN  /\ b.timesApplicable * call.buyQuantity <= buyCount
               /\ buyCount < (b.timesApplicable + 1) * call.buyQuantity
               /\ limit = Undefined => b.timesApplied = b.timesApplicable
               /\ limit # Undefined
                      => /\ b.timesApplied =
                                (IF limit[1] <= b.timesApplicable
                                 THEN limit[1] ELSE b.timesApplicable)
                         /\ b.timesApplied <= limit[1]
               /\ b.timesApplied >= 1
               /\ b.timesApplied <= b.timesApplicable

\* C11 witness: the repetition limit is what bounds the applications.
C11_Witness ==
    /\ BxGyEvaluated
    /\ result.applicable
    /\ call.repetitionLimit = <<2>>
    /\ result.breakdownInfo.timesApplicable = 4
    /\ result.breakdownInfo.timesApplied = 2

\* C12: in every applicable BxGy result no unit of a get-eligible line is
\* freed while a higher-priced get-eligible line keeps an unfreed unit.  (Units
\* of one price are interchangeable for this, so it is stated per price: a
\* unit is freed at p2 only if every candidate unit at any p1 > p2 is freed.)
C12_HighestPricedFirst ==
    (BxGyEvaluated /\ result.applicable)
        => \A p1, p2 \in Prices :
               (p1 > p2 /\ FreedAt(p2) > 0) => FreedAt(p1) = AvailableAt(p1)

\* C12 witness: the cheaper candidate comes first in the cart and stays
\* unfreed; the one free unit is taken from the dearer line, which keeps a unit.
C12_Witness ==
    /\ BxGyEvaluated
    /\ result.applicable
    /\ Len(cart) = 2
    /\ EligibleIndices(cart, call.getArray) = {1, 2}
    /\ cart[1].price = 50
    /\ cart[2].price = 500
    /\ cart[2].quantity = 2
    /\ FreedAt(500) = 1
    /\ FreedAt(50) = 0

\* C13: with needed = timesApplied * getQuantity, the reported total of free
\* units is min(needed, quantity of the get-eligible lines); each cart line
\* gives at most its own quantity (the breakdown entries match distinct
\* get-eligible lines that hold at least the entry's quantity); and a supply
\* smaller than needed still ends applicable with what was freed.
C13_FreeUnitBookkeeping ==
    BxGyEvaluated
        => LET supply == QuantityIn(cart, call.getArray)
               buyCount == QuantityIn(cart, call.buyArray)
               times == buyCount \div call.buyQuantity
               limited == IF call.repetitionLimit # Undefined
                             /\ call.repetitionLimit[1] < times
                          THEN call.repetitionLimit[1] ELSE times
           IN  /\ result.applicable
                      => LET b == result.breakdownInfo
                             needed == b.timesApplied * call.getQuantity
                         IN  /\ b.totalFreeItemsGiven =
                                    (IF needed <= supply THEN needed ELSE supply)
                             /\ \E f \in [1..Len(FreeDetails) -> 1..Len(cart)] :
                                    /\ \A j, k \in 1..Len(FreeDetails) :
                                           f[j] = f[k] => j = k
                                    /\ \A k \in 1..Len(FreeDetails) :
                                           /\ f[k] \in EligibleIndices(cart, call.getArray)
                                           /\ cart[f[k]].product_id = FreeDetails[k].product_id
                                           /\ cart[f[k]].price = FreeDetails[k].price
                                           /\ FreeDetails[k].quantity <= cart[f[k]].quantity
               /\ (buyCount >= call.buyQuantity /\ supply > 0
                       /\ supply < limited * call.getQuantity)
                      => /\ result.applicable
                         /\ result.breakdownInfo.totalFreeItemsGiven = supply

\* C13 witness: four free units are needed, the only candidate line holds one.
C13_Witness ==
    /\ BxGyEvaluated
    /\ result.applicable
    /\ result.breakdownInfo.timesApplied * call.getQuantity = 4
    /\ QuantityIn(cart, call.getArray) = 1
    /\ result.breakdownInfo.totalFreeItemsGiven = 1

C15_CartUnchanged == [][cart' = cart]_vars

\* C15 witness: a BxGy evaluation has sorted its candidates, which stand in
\* the cart in ascending price order, and the cart is still in that order.
C15_Witness ==
    /\ BxGyEvaluated
    /\ result.applicable
    /\ Len(cart) = 2
    /\ EligibleIndices(cart, call.getArray) = {1, 2}
    /\ cart[1].price < cart[2].price
    /\ FreeDetails[1].price = cart[2].price

\* C16: given an empty, null or non-array cart, each evaluator returns
\* {applicable: false, discountAmount: 0} with the reason that the cart is
\* empty, whatever the other arguments are; nothing is thrown.
C16_EmptyCartRejected ==
    (call.fn \in EvaluatorCalls /\ (cartType # "array" \/ Len(cart) = 0))
        => /\ IsEvaluationResult(result)
           /\ ~result.applicable
           /\ result.discountAmount = 0
           /\ "reason" \in DOMAIN result
           /\ result.reason = "Cart is empty"

\* C16 witness: a null cart given to the BxGy evaluator together with an
\* empty buy array.
C16_Witness ==
    /\ call.fn = "bxgy"
    /\ cartType = "null"
    /\ call.buyArray = {}
    /\ result.reason = "Cart is empty"

\* C17: the rounding helper is idempotent: round2(round2(x)) = round2(x).
C17_RoundIdempotent ==
    (call.fn = "_roundPrice" /\ call.again) => result.value = call.price

\* C17 witness: -0.015 was rounded to -0.01 (the half goes up), and -0.01 was
\* rounded again.
C17_Witness ==
    /\ call.fn = "_roundPrice"
    /\ call.again
    /\ call.price = 0 - 100
    /\ result.value = 0 - 100

\* C18: every monetary value an evaluator returns (discountAmount and the
\* monetary breakdown fields computed from the cart: cart total, shortfall,
\* per-line subtotal, per-line discount, post-discount total) is a multiple of
\* 0.01.
C18_AllMoneyRounded ==
    (call.fn \in EvaluatorCalls)
        => /\ IsRounded(result.discountAmount)
           /\ (call.fn = "cartWise" /\ "breakdownInfo" \in DOMAIN result)
                  => LET b == result.breakdownInfo
                     IN  /\ IsRounded(b.cartTotal)
                         /\ "shortfall" \in DOMAIN b => IsRounded(b.shortfall)
                         /\ "finalDiscount" \in DOMAIN b => IsRounded(b.finalDiscount)
                         /\ "calculatedDiscount" \in DOMAIN b
                                => IsRounded(b.calculatedDiscount)
                         /\ "finalAmount" \in DOMAIN b => IsRounded(b.finalAmount)
           /\ (call.fn = "productWise" /\ result.applicable)
                  => /\ IsRounded(result.breakdownInfo.totalDiscount)
                     /\ \A k \in 1..Len(LineBreakdown(result)) :
                            /\ IsRounded(LineBreakdown(result)[k].discount)
                            /\ IsRounded(LineBreakdown(result)[k].itemTotal)
           /\ (call.fn = "bxgy" /\ result.applicable)
                  => /\ IsRounded(result.breakdownInfo.totalDiscount)
                     /\ \A k \in 1..Len(FreeDetails) :
                            IsRounded(FreeDetails[k].discount)

\* The stored coupon codes are pairwise distinct.
CodesDistinct ==
    \A i, j \in DOMAIN coupons : coupons[i].code = coupons[j].code => i = j

\* A stored coupon holds the code, trimmed and in upper case.
CodeStored(code) == \E id \in DOMAIN coupons : coupons[id].code = CastCode(code)

\* C19: no two stored coupons ever have the same code, whatever createCoupon,
\* updateCoupon and deleteCoupon calls interleave; and a createCoupon whose
\* code is stored when the call looks it up fails with the 'already exists'
\* error and stores nothing.
C19_UniqueCodes ==
    /\ []CodesDistinct
    /\ [][\A r \in Requests :
              (/\ requests[r] = Idle
               /\ requests'[r].op = "createCoupon"
               /\ CodeStored(requests'[r].couponData.code))
                  => /\ requests'[r].pc = "done"
                     /\ requests'[r].error = AlreadyExists
                     /\ coupons' = coupons]_vars

\* C19 witness: two coupons are stored; one createCoupon met a stored code and
\* ended with 'already exists', another lost the race to a concurrent create
\* of its code and was turned down by the unique index at save.
C19_Witness ==
    /\ Cardinality(DOMAIN coupons) = 2
    /\ requests["r1"].op = "createCoupon"
    /\ requests["r1"].pc = "done"
    /\ requests["r1"].error = AlreadyExists
    /\ requests["r2"].op = "createCoupon"
    /\ requests["r2"].pc = "done"
    /\ requests["r2"].error = DuplicateKeyError

\* The coupon is inactive, or its applicable_till date is in the past.
Unusable(coupon) ==
    \/ ~coupon.is_active
    \/ coupon.applicable_till # Undefined /\ coupon.applicable_till[1] < now

\* C20: a coupon that is inactive or past its applicable_till date is never
\* applied, from the moment it is so: isCouponApplicable answers
\* applicable = false for it on every cart; a getApplicableCoupons answer
\* never lists it; an applyCouponToCart of it fails; and no step increments
\* its current_usage or records a usage of it.
C20_UnusableNeverApplied ==
    /\ [](\A id \in DOMAIN coupons, cartItems \in ServiceCarts :
              Unusable(coupons[id])
                  => ~isCouponApplicable(coupons[id], cartItems, now).applicable)
    /\ [][\A r \in Requests :
              (requests[r] = Idle /\ requests'[r].op = "getApplicableCoupons")
                  => \A id \in requests'[r].applicable : ~Unusable(coupons[id])]_vars
    /\ [][\A r \in Requests :
              (/\ requests[r] = Idle
               /\ requests'[r].op = "applyCouponToCart"
               /\ requests'[r].couponId \in DOMAIN coupons
               /\ Unusable(coupons[requests'[r].couponId]))
                  => /\ requests'[r].pc = "done"
                     /\ requests'[r].error # NoError]_vars
    /\ [][\A id \in DOMAIN coupons :
              Unusable(coupons[id])
                  => /\ id \in DOMAIN coupons'
                            => coupons'[id].current_usage = coupons[id].current_usage
                     /\ Len(usages') > Len(usages)
                            => usages'[Len(usages')].coupon_id # id]_vars

\* C23: every applicable cart-wise result, capped or not, carries a breakdown
\* with the cart total, the discount type and value, and the post-discount
\* cart total, which is round2(cartTotal - discountAmount).
C23_CartWiseBreakdown ==
    (CartWiseEvaluated /\ result.applicable)
        => LET b == result.breakdownInfo
           IN  /\ {"cartTotal", "discountType", "discountValue", "finalAmount"}
                      \subseteq DOMAIN b
               /\ b.cartTotal = Round2(TotalOf(cart))
               /\ b.discountType = call.discount.type
               /\ b.discountValue = call.discount.value
               /\ b.finalAmount = Round2(TotalOf(cart) - result.discountAmount)

\* The part of C23 that the code meets: the uncapped results.
C23_UncappedBreakdown ==
    (CartWiseEvaluated /\ result.applicable /\ "reason" \notin DOMAIN result)
        => LET b == result.breakdownInfo
           IN  /\ {"cartTotal", "discountType", "discountValue", "finalAmount"}
                      \subseteq DOMAIN b
               /\ b.cartTotal = Round2(TotalOf(cart))
               /\ b.discountType = call.discount.type
               /\ b.discountValue = call.discount.value
               /\ b.finalAmount = Round2(TotalOf(cart) - result.discountAmount)

\* C29: BxGy with a product id in both the buy and the get array: the freed
\* units plus the timesApplied * buyQuantity units that pay for them never
\* exceed the units of the cart that are eligible for buy or get, so no unit
\* is both counted toward the buy requirement and given free.
C29_BoughtUnitsNotFreed ==
    (BxGyEvaluated /\ result.applicable /\ call.buyArray \cap call.getArray # {})
        => result.breakdownInfo.totalFreeItemsGiven
               + result.breakdownInfo.timesApplied * call.buyQuantity
           <= QuantityIn(cart, call.buyArray \cup call.getArray)

\* The usage records stored for coupon id.
UsagesOf(id) == {k \in 1..Len(usages) : usages[k].coupon_id = id}

\* An applyCouponToCart call is between its first write and its return.
ApplyInFlight ==
    \E r \in Requests : requests[r].pc \in {"increment", "record"}

\* The coupon is active, not expired, and under its usage limit.
Usable(coupon) ==
    /\ ~Unusable(coupon)
    /\ coupon.max_usage # Undefined => coupon.current_usage < coupon.max_usage[1]

\* C24: for a coupon with max_usage = N, whatever applyCouponToCart calls
\* interleave, neither the number of usage records of the coupon nor its
\* current_usage ever exceeds N.
C24_UsageWithinLimit ==
    \A id \in DOMAIN coupons :
        coupons[id].max_usage # Undefined
            => /\ Cardinality(UsagesOf(id)) <= coupons[id].max_usage[1]
               /\ coupons[id].current_usage <= coupons[id].max_usage[1]

\* C25: when every applyCouponToCart call has returned, a coupon's
\* current_usage is the number of usage records stored for it: no increment
\* is lost.
C25_CounterMatchesRecords ==
    ~ApplyInFlight
        => \A id \in DOMAIN coupons :
               coupons[id].current_usage = Cardinality(UsagesOf(id))

\* C26: for every active, unexpired, under-limit coupon and every valid cart
\* the pre-check isCouponApplicable answers applicable exactly when the
\* discount calculator does; a coupon getApplicableCoupons lists is not
\* rejected by the calculator; and a cart-wise coupon without
\* minimum_cart_value is applicable to every non-empty cart.
C26_PreCheckMatchesCalculator ==
    [][\A r \in Requests :
          /\ (/\ requests[r] = Idle
              /\ requests'[r].op = "applyCouponToCart"
              /\ requests'[r].couponId \in DOMAIN coupons
              /\ Usable(coupons[requests'[r].couponId]))
                 => LET coupon == coupons[requests'[r].couponId]
                        cartItems == requests'[r].cartItems
                    IN  isCouponApplicable(coupon, cartItems, now).applicable
                            <=> DiscountResult(coupon, cartItems).applicable
          /\ (requests[r] = Idle /\ requests'[r].op = "getApplicableCoupons")
                 => \A id \in DOMAIN coupons :
                        LET cartItems == requests'[r].cartItems
                        IN  /\ id \in requests'[r].applicable
                                   => DiscountResult(coupons[id], cartItems).applicable
                            /\ (/\ Usable(coupons[id])
                                /\ coupons[id].type = "CART_WISE"
                                /\ coupons[id].conditions.minimum_cart_value = Undefined)
                                   => id \in requests'[r].applicable]_vars

\* C27: applyCouponToCart is all-or-nothing.  A call that fails (coupon not
\* found, not applicable, rejected by the calculator, or a storage write
\* failed) has changed neither a counter nor the usage records: the step that
\* refuses it writes nothing, and once the calls have returned no coupon's
\* current_usage is ahead of the usage records stored for it.
C27_AllOrNothing ==
    /\ [](~ApplyInFlight
              => \A id \in DOMAIN coupons :
                     coupons[id].current_usage <= Cardinality(UsagesOf(id)))
    /\ [][\A r \in Requests :
              (/\ requests'[r] # requests[r]
               /\ requests'[r].op = "applyCouponToCart"
               /\ requests'[r].pc = "done"
               /\ requests'[r].error # NoError)
                  => coupons' = coupons /\ usages' = usages]_vars

\* The cart of a request body is bad, in the words of the claim: the body has
\* none of the three shapes, the cart is empty, or an item has no product_id
\* (null, which has no fields, included), a price that is not a number or is
\* negative, or a quantity that is not a number or is not positive.
ItemIsBad(item) ==
    \/ item.isNull
    \/ item.product_id.type = "undefined"
    \/ item.price.type # "number"
    \/ item.price.value < 0
    \/ item.quantity.type # "number"
    \/ item.quantity.value <= 0

BadCart(body) ==
    \/ body.shape \notin CartShapes
    \/ Len(body.items) = 0
    \/ \E i \in 1..Len(body.items) : ItemIsBad(body.items[i])

HasNullItem(body) == \E i \in 1..Len(body.items) : body.items[i].isNull

\* The step is the handling of a cart request with this body.
CartRequest(r, body) ==
    \/ \E couponId \in 1..2 : HttpApplyCoupon(r, couponId, body)
    \/ HttpGetApplicableCoupons(r, body)

Rejected400(r) ==
    /\ requests'[r].pc = "responded"
    /\ requests'[r].status = 400
    /\ coupons' = coupons
    /\ usages' = usages

\* C21: a request to POST /coupons/check/applicable or POST /coupons/:id/apply
\* whose cart is bad is answered with status 400 without reaching the
\* service: no coupon and no usage record changes.
C21_BadCartRejected ==
    [][\A r \in Requests, body \in HttpBodies :
          (BadCart(body) /\ CartRequest(r, body)) => Rejected400(r)]_vars

\* C21, the part that holds: a bad cart whose items are all objects is
\* answered with 400, and a bad cart of any kind never reaches the service.
C21_ObjectItemsRejected ==
    [][\A r \in Requests, body \in HttpBodies :
          (BadCart(body) /\ CartRequest(r, body))
              => /\ ~HasNullItem(body) => Rejected400(r)
                 /\ requests'[r].pc = "responded"
                 /\ coupons' = coupons
                 /\ usages' = usages]_vars

BusinessRefusal(error) == error \notin {NoError, NotFound, WriteFailed, TypeErrorMessage}

\* C28: when POST /coupons/:id/apply is refused for a business reason, by the
\* pre-check or by the calculator, the handler answers 400, never 500.
C28_BusinessRefusal400 ==
    [][\A r \in Requests :
          (/\ requests[r].op = "applyCouponToCart"
           /\ requests[r].pc = "done"
           /\ BusinessRefusal(requests[r].error)
           /\ requests'[r].pc = "responded")
              => requests'[r].status = 400]_vars

\* C28, the part that holds: a refusal by the pre-check is answered 400.
C28_PreCheckRefusal400 ==
    [][\A r \in Requests :
          (/\ requests[r].op = "applyCouponToCart"
           /\ requests[r].pc = "done"
           /\ requests[r].error = CannotBeApplied
           /\ requests'[r].pc = "responded")
              => requests'[r].status = 400]_vars

\* The step is the increment of a successful applyCouponToCart.
IncrementStep ==
    \E r \in Requests :
        /\ requests[r].op = "applyCouponToCart"
        /\ requests[r].pc = "increment"
        /\ requests'[r].pc = "record"

\* C30: a coupon's current_usage is 0 when the coupon is created, whatever
\* the request body names, and afterwards changes only in the increment of a
\* successful applyCouponToCart, by one upwards: no createCoupon,
\* updateCoupon, getApplicableCoupons or failed apply changes it, and it never
\* decreases.
C30_CounterOnlyByApply ==
    [][\A id \in DOMAIN coupons' :
          IF id \notin DOMAIN coupons
          THEN coupons'[id].current_usage = 0
          ELSE coupons'[id].current_usage # coupons[id].current_usage
                   => /\ coupons'[id].current_usage = coupons[id].current_usage + 1
                      /\ IncrementStep]_vars

\* C30, the part that holds: a created coupon starts at 0 whatever the body
\* names, and only an updateCoupon or the increment of an apply changes a
\* stored counter.
C30_CounterByApplyOrUpdate ==
    [][\A id \in DOMAIN coupons' :
          IF id \notin DOMAIN coupons
          THEN coupons'[id].current_usage = 0
          ELSE coupons'[id].current_usage # coupons[id].current_usage
                   => \/ IncrementStep
                      \/ \E r \in Requests :
                             /\ requests[r] = Idle
                             /\ requests'[r].op = "updateCoupon"
                             /\ "current_usage" \in DOMAIN requests'[r].updateData]_vars

====
